---- MODULE Spec2Model ----
(***************************************************************************)
(* async-redis: RawConnection (connection.py) on top of RedisStreamReader  *)
(* (streams.py).  Tasks of one event loop call execute, execute_many and   *)
(* close on one connection; a peer answers the requests in order and the   *)
(* network delivers each reply whole or split in two chunks.               *)
(*                                                                         *)
(* One task runs at a time: `cur` is the task that is executing between    *)
(* two awaits, and every other step waits until it suspends or returns.    *)
(* Commands are encodable, the expected status is the default b'OK', and   *)
(* replies are small against the reader's limit, so reading never pauses.  *)
(***************************************************************************)
EXTENDS Integers, Sequences, FiniteSets, TLC

\* ---------------------------------------------------------------- bounds
MaxTasks == 3
MaxBatch == 2
\* How many times the environment may disturb a run: a cancellation, a reply
\* split over two chunks, a drain() that has to wait.
MaxEvents == 1
\* How many commands a pipeline records in all, and how many times its owner
\* calls p.execute() inside the block.
MaxCmds == 3
MaxFlushes == 2
\* The reader's limit in bytes (64 KiB in streams.py, scaled down), the
\* largest chunk the transport delivers, and the most bytes a transport that
\* cannot pause is let to pile up.
Limit == 2
MaxChunk == 3
MaxBuf == 9
\* The most commands encoded into one buffer and the most arguments of a command.
MaxEncCmds == 2
MaxArgs == 2
\* The most elements of an array reply that is converted.
MaxItems == 2
\* The most bytes the transport delivers in one piece of a reply.
MaxPiece == 17

Tasks == 1..MaxTasks
NoTask == 0

\* ReturnAs values drawn by the callers (typing.Decoders / return_as).
Tags == {"none", "str", "ok"}
\* What the peer may answer: the status line +OK or an error line.
ReplyKinds == {"ok", "err"}
OpKinds == {"execute", "execute_many", "close"}

NoOp == [kind |-> "none", tag |-> "none", n |-> 0]

VARIABLES
    op,            \* op[t]: the call task t makes (kind, return_as, number of commands)
    pc,            \* pc[t]: where task t is
    outcome,       \* outcome[t]: "pending", "returned" or the exception raised
    results,       \* results[t]: the replies _read_result has accepted, in order
    holder,        \* the task that owns _lock (NoTask: not locked)
    lock_waiters,  \* the tasks queued in Lock.acquire, oldest first
    hi_reader,     \* which hiredis reader _reader.hi_reader refers to
    buffers,       \* buffers[r]: the chunks fed to reader r and not yet parsed
    wire,          \* the commands the transport has sent, in order
    replies,       \* replies[i]: the kind of the peer's answer to wire[i]
    half,          \* TRUE when the head chunk of the last reply is fed, its tail not
    waiter,        \* the task suspended in _wait_for_data (NoTask: none)
    cur,           \* the task running now (NoTask: the loop is between callbacks)
    tr_closing,    \* transport.close() has been called
    conn_lost,     \* protocol.connection_lost() has run
    eof,           \* reader._eof
    acqOrder,      \* history: the tasks in the order they acquired _lock
    afterClose,    \* history: afterClose[t], t called after a close() had returned
    cancelledMid,  \* history: a task was cancelled between its write and its last read
    used           \* how many times the environment has disturbed the run

connVars == <<op, pc, outcome, results, holder, lock_waiters, hi_reader, buffers, wire,
              replies, half, waiter, cur, tr_closing, conn_lost, eof, acqOrder,
              afterClose, cancelledMid, used>>

\* The pipeline layer (pipeline.py, pipeline_commands.py).  One coroutine runs
\* `async with redis.pipeline() as p:`; each flush it makes is one call of
\* execute_many, made by the next task.
VARIABLES
    scope,         \* where the owner is: "out", "in" the block, "exited", "aborted"
    ctx_pipeline,  \* PipelineContext._pipeline: "none" or "set"
    pipeline,      \* CommandsPipeline._pipeline: the recorded commands, in order
    nCmds,         \* how many commands were recorded so far (they are numbered)
    flushBy,       \* the task running the flush the owner awaits (NoTask: none)
    flushHow,      \* that flush: "explicit" (p.execute) or "exit" (__aexit__)
    batchOf,       \* batchOf[t]: the commands handed to execute_many by call t
    flushes,       \* history: each flush, its number of commands and its call
    ret,           \* what the last flush gave its caller: its state and the values
    abandoned,     \* history: the commands never flushed when the block failed
    late           \* commands another task appended to the list of the running
                   \* flush before execute_many took the list's length

pipeVars == <<scope, ctx_pipeline, pipeline, nCmds, flushBy, flushHow, batchOf,
              flushes, ret, abandoned, late>>

\* Flow control of RedisStreamReader, counted in bytes.
VARIABLES
    transport,     \* reader._transport: "pausable", "fixed" (pause_reading raises
                   \* NotImplementedError) or "none"
    paused,        \* reader._paused
    hi_len,        \* hi_reader.len(): bytes fed and not yet parsed
    need,          \* the size in bytes of the reply at the front of the stream
    rd_waiting,    \* read_redis is suspended in _wait_for_data
    flow_ev,       \* history: the last step, and whether it began paused
    tr_depth,      \* history: successful pause_reading calls minus resume_reading calls
    tr_failed      \* history: pause_reading calls that raised NotImplementedError

flowVars == <<transport, paused, hi_len, need, rd_waiting, flow_ev, tr_depth, tr_failed>>

\* The command encoder, on bytes (numbers 0..255).
VARIABLES
    enc_cmds,      \* the commands passed to _encode_command so far, in order
    enc_buf,       \* buf: the bytearray the commands are encoded into
    enc_parts,     \* history: each command's encoding into a buffer of its own
    enc_err        \* _encode_command raised TypeError

encVars == <<enc_cmds, enc_buf, enc_parts, enc_err>>

\* Calls with their arguments.
VARIABLES
    args_of        \* args_of[t]: the commands call t was given, each a list of arguments

callVars == <<args_of>>

\* The conversion of one reply by _read_result.
VARIABLES
    dec_tag,       \* return_as: "int", "float" or "bool"
    dec_raw,       \* the value read_redis returned
    dec_out        \* what _read_result gave: nothing yet, a value, a list, an exception

decVars == <<dec_tag, dec_raw, dec_out>>

\* One reply arriving in pieces at the stream reader.
VARIABLES
    fr_reply,      \* the reply the peer sends: its bytes and the value they stand for
    fr_fed,        \* how many of its bytes feed_data has been given
    fr_buf,        \* the bytes held by hi_reader
    fr_wait,       \* read_redis is suspended in _wait_for_data
    fr_got,        \* what read_redis returned (NoValue: nothing yet)
    fr_at,         \* history: fr_fed when read_redis returned
    fr_pieces      \* history: how many feed_data calls the bytes came in

fragVars == <<fr_reply, fr_fed, fr_buf, fr_wait, fr_got, fr_at, fr_pieces>>

\* The layers that the pipeline, the flow control and the encoder never touch.
restVars == <<callVars, decVars, fragVars>>

\* Everything above the connection: unchanged by the connection's own steps.
extVars == <<pipeVars, flowVars, encVars, restVars>>

vars == <<connVars, extVars>>

Readers == {"raw", "enc", "new"}

\* ------------------------------------------------------------ pure helpers

\* _set_reader_encoding: the text reader for 'str', the raw one otherwise.
ReaderFor(tag) == IF tag = "str" THEN "enc" ELSE "raw"

\* The commands of a call, as the transport sees them.
Requests(t, n) == [i \in 1..n |-> [task |-> t, idx |-> i]]

\* How many replies call t reads: execute reads one; execute_many takes
\* len(commands) when its reading starts, which for a flush is the length of
\* the pipeline's own list at that moment.
Expected(t) == op[t].n + (IF flushBy = t THEN late ELSE 0)

\* The mutated transport: bytes written after close() still go out.
TransportWriteAlways(closing, w, reqs) == w \o reqs

\* transport.write: after close() the bytes are dropped.
TransportWrite(closing, w, reqs) == IF closing THEN w ELSE w \o reqs

\* The mutated lock: the newest waiter is woken.
WakeUpLast(q) == Len(q)

\* Lock._wake_up_first: the index of the waiter release() wakes.
WakeUpFirst(q) == 1

RemoveAt(q, i) == [j \in 1..(Len(q) - 1) |-> IF j < i THEN q[j] ELSE q[j + 1]]

\* hi_raw and the reader read_redis makes at end-of-stream return bytes,
\* hi_enc (hiredis.Reader(encoding=...)) returns text.
ModeOf(reader) == IF reader = "enc" THEN "str" ELSE "bytes"

\* hiredis.Reader.gets on the chunks buffered in one reader.
\*   "false": no complete reply yet;  "value": reply rid is complete (n chunks);
\*   "garbled": the bytes at the front are not the start of a reply of this
\*   stream (a tail whose head went to the other reader, or a head followed
\*   by another reply's bytes): depending on the bytes gets() raises
\*   ProtocolError, returns a value that is no reply of the peer, or asks
\*   for more data.
Gets(buf) ==
    IF buf = <<>> THEN [res |-> "false", rid |-> 0, n |-> 0]
    ELSE IF buf[1].part = "whole" THEN [res |-> "value", rid |-> buf[1].rid, n |-> 1]
    ELSE IF buf[1].part = "head" THEN
        IF Len(buf) = 1 THEN [res |-> "false", rid |-> 0, n |-> 0]
        ELSE IF buf[2].part = "tail" /\ buf[2].rid = buf[1].rid
            THEN [res |-> "value", rid |-> buf[1].rid, n |-> 2]
            ELSE [res |-> "garbled", rid |-> 0, n |-> 1]
    ELSE [res |-> "garbled", rid |-> 0, n |-> 1]

\* _read_result after read_redis returned v = [rid, kind, mode]:
\* "keep" (the value is part of the call's result) or the exception raised.
\*   None / 'str': the reply as it is (an error reply is a ReplyError object).
\*   'ok': compared with _expected_ok_msg = b'OK'; the text reader yields 'OK'.
ReadResult(tag, v) ==
    IF tag \in {"none", "str"} THEN "keep"
    ELSE IF tag = "ok" THEN
        IF v.kind = "ok" /\ v.mode = "bytes" THEN "keep" ELSE "RuntimeError"
    ELSE "keep"

\* ------------------------------------------------------------------- Init

ConnInit ==
    /\ op = [t \in Tasks |-> NoOp]
    /\ pc = [t \in Tasks |-> "idle"]
    /\ outcome = [t \in Tasks |-> "pending"]
    /\ results = [t \in Tasks |-> <<>>]
    /\ holder = NoTask
    /\ lock_waiters = <<>>
    /\ hi_reader = "raw"
    /\ buffers = [r \in Readers |-> <<>>]
    /\ wire = <<>>
    /\ replies = <<>>
    /\ half = FALSE
    /\ waiter = NoTask
    /\ cur = NoTask
    /\ tr_closing = FALSE
    /\ conn_lost = FALSE
    /\ eof = FALSE
    /\ acqOrder = <<>>
    /\ afterClose = [t \in Tasks |-> FALSE]
    /\ cancelledMid = FALSE
    /\ used = 0

\* A flush that has given no values: not made, awaited, or raised.
NoRet(st) == [st |-> st, vals |-> <<>>]

\* PipelineContext.__init__: no pipeline yet.
PipeInit ==
    /\ scope = "out"
    /\ ctx_pipeline = "none"
    /\ pipeline = <<>>
    /\ nCmds = 0
    /\ flushBy = NoTask
    /\ flushHow = "none"
    /\ batchOf = [t \in Tasks |-> <<>>]
    /\ flushes = <<>>
    /\ ret = NoRet("none")
    /\ abandoned = {}
    /\ late = 0

\* The sizes of the replies the peer sends; one is larger than 2 * Limit.
ReplySizes == {1, 2, 2 * Limit + 2}

\* RedisStreamReader.__init__ and set_transport: nothing buffered, not paused.
FlowIdle ==
    /\ paused = FALSE
    /\ hi_len = 0
    /\ rd_waiting = FALSE
    /\ flow_ev = [step |-> "init", was_paused |-> FALSE]
    /\ tr_depth = 0
    /\ tr_failed = 0

FlowInit ==
    /\ FlowIdle
    /\ transport = "pausable"
    /\ need = 1

\* `buf = bytearray()` in execute and execute_many.
EncInit ==
    /\ enc_cmds = <<>>
    /\ enc_buf = <<>>
    /\ enc_parts = <<>>
    /\ enc_err = FALSE

\* No call has been made.
CallInit == args_of = [t \in Tasks |-> <<>>]

\* What read_redis returns: bytes, an int (for a `:` reply) or a list of bytes.
RawBlob(b) == [kind |-> "blob", blob |-> b, n |-> 0, items |-> <<>>]
RawInt(n) == [kind |-> "int", blob |-> <<>>, n |-> n, items |-> <<>>]
RawArray(items) == [kind |-> "array", blob |-> <<>>, n |-> 0, items |-> items]

NoOut == [st |-> "none", vals |-> <<>>]

\* No reply has been converted; the one at hand is b'1' for return_as='int'.
DecInit ==
    /\ dec_tag = "int"
    /\ dec_raw = RawBlob(<<49>>)
    /\ dec_out = NoOut

RawNil == [kind |-> "nil", blob |-> <<>>, n |-> 0, items |-> <<>>]
RawErr(b) == [kind |-> "err", blob |-> b, n |-> 0, items |-> <<>>]
NoValue == [kind |-> "none", blob |-> <<>>, n |-> 0, items |-> <<>>]

\* Nothing fed, nothing read.
FragIdle ==
    /\ fr_fed = 0
    /\ fr_buf = <<>>
    /\ fr_wait = FALSE
    /\ fr_got = NoValue
    /\ fr_at = 0
    /\ fr_pieces = 0

\* The peer is about to send +OK.
FragInit ==
    /\ FragIdle
    /\ fr_reply = [bytes |-> <<43, 79, 75, 13, 10>>, val |-> RawBlob(<<79, 75>>)]

RestInit == CallInit /\ DecInit /\ FragInit

Init == ConnInit /\ PipeInit /\ FlowInit /\ EncInit /\ RestInit

\* ---------------------------------------------------------------- the lock

\* The mutated lock: every caller gets it at once.
LockFreeAlways == TRUE

\* Lock.acquire takes the lock at once when it is not locked and nobody waits.
LockFree == holder = NoTask /\ lock_waiters = <<>>

\* `async with self._lock` on entry: take the lock or queue behind the others.
Acquire(t) ==
    IF LockFree
    THEN /\ holder' = t
         /\ pc' = [pc EXCEPT ![t] = "locked"]
         /\ cur' = t
         /\ acqOrder' = Append(acqOrder, t)
         /\ UNCHANGED lock_waiters
    ELSE /\ lock_waiters' = Append(lock_waiters, t)
         /\ pc' = [pc EXCEPT ![t] = "lock"]
         /\ UNCHANGED <<holder, cur, acqOrder>>

\* Lock.release: wake the first waiter, which then owns the lock.
ReleaseLock ==
    IF lock_waiters = <<>>
    THEN holder' = NoTask /\ UNCHANGED lock_waiters
    ELSE /\ holder' = lock_waiters[WakeUpFirst(lock_waiters)]
         /\ lock_waiters' = RemoveAt(lock_waiters, WakeUpFirst(lock_waiters))

\* The mutated exit: a call that raises keeps the lock.
FinishHolding(t, out) ==
    /\ pc' = [pc EXCEPT ![t] = "done"]
    /\ outcome' = [outcome EXCEPT ![t] = out]
    /\ cur' = NoTask
    /\ IF out = "returned" THEN ReleaseLock ELSE UNCHANGED <<holder, lock_waiters>>

\* The call of task t ends (return or raise) inside `async with self._lock`.
Finish(t, out) ==
    /\ pc' = [pc EXCEPT ![t] = "done"]
    /\ outcome' = [outcome EXCEPT ![t] = out]
    /\ cur' = NoTask
    /\ ReleaseLock

\* A close() call has returned.
CloseReturned ==
    \E t \in Tasks : op[t].kind = "close" /\ pc[t] = "done" /\ outcome[t] = "returned"

\* A task starts its one call; tasks start in the order of their numbers.
CanCall(t) ==
    /\ cur = NoTask
    /\ pc[t] = "idle"
    /\ \A u \in Tasks : u < t => pc[u] # "idle"

\* ---------------------------------------------------------------- actions

\* RawConnection.execute up to `async with self._lock`.
ExecuteCall(t, tag) ==
    /\ CanCall(t)
    /\ op' = [op EXCEPT ![t] = [kind |-> "execute", tag |-> tag, n |-> 1]]
    /\ hi_reader' = ReaderFor(tag)
    /\ afterClose' = [afterClose EXCEPT ![t] = CloseReturned]
    /\ Acquire(t)
    /\ UNCHANGED <<outcome, results, buffers, wire, replies, half, waiter,
                   tr_closing, conn_lost, eof, cancelledMid, used>>

\* execute called directly by a task, with arguments that encode.
Execute(t, tag) ==
    /\ ExecuteCall(t, tag)
    /\ UNCHANGED extVars

\* RawConnection.execute_many up to `async with self._lock`.
ExecuteManyCall(t, tag, n) ==
    /\ CanCall(t)
    /\ op' = [op EXCEPT ![t] = [kind |-> "execute_many", tag |-> tag, n |-> n]]
    /\ hi_reader' = ReaderFor("none")
    /\ afterClose' = [afterClose EXCEPT ![t] = CloseReturned]
    /\ Acquire(t)
    /\ UNCHANGED <<outcome, results, buffers, wire, replies, half, waiter,
                   tr_closing, conn_lost, eof, cancelledMid, used>>

\* execute_many called directly by a task.
ExecuteMany(t, tag, n) ==
    /\ ExecuteManyCall(t, tag, n)
    /\ UNCHANGED extVars

\* RawConnection.close up to `async with self._lock`.
Close(t) ==
    /\ UNCHANGED extVars
    /\ CanCall(t)
    /\ op' = [op EXCEPT ![t] = [kind |-> "close", tag |-> "none", n |-> 0]]
    /\ afterClose' = [afterClose EXCEPT ![t] = CloseReturned]
    /\ Acquire(t)
    /\ UNCHANGED <<outcome, results, hi_reader, buffers, wire, replies, half, waiter,
                   tr_closing, conn_lost, eof, cancelledMid, used>>

\* A task woken by Lock.release runs again and owns the lock.
LockResume(t) ==
    /\ UNCHANGED extVars
    /\ cur = NoTask
    /\ pc[t] = "lock"
    /\ holder = t
    /\ pc' = [pc EXCEPT ![t] = "locked"]
    /\ cur' = t
    /\ acqOrder' = Append(acqOrder, t)
    /\ UNCHANGED <<op, outcome, results, holder, lock_waiters, hi_reader, buffers, wire,
                   replies, half, waiter, tr_closing, conn_lost, eof, afterClose,
                   cancelledMid, used>>

\* self._writer.write(buf); await self._writer.drain().  drain() yields once when
\* the transport is closing and suspends while the write buffer is above its
\* high-water mark.
Write(t) ==
    /\ UNCHANGED extVars
    /\ cur = t
    /\ pc[t] = "locked"
    /\ op[t].kind \in {"execute", "execute_many"}
    /\ wire' = TransportWrite(tr_closing, wire, Requests(t, op[t].n))
    /\ IF tr_closing
       THEN pc' = [pc EXCEPT ![t] = "drain"] /\ cur' = NoTask /\ UNCHANGED used
       ELSE \/ pc' = [pc EXCEPT ![t] = "gets"] /\ cur' = t /\ UNCHANGED used
            \/ /\ used < MaxEvents
               /\ used' = used + 1
               /\ pc' = [pc EXCEPT ![t] = "drain"]
               /\ cur' = NoTask
    /\ UNCHANGED <<op, outcome, results, holder, lock_waiters, hi_reader, buffers,
                   replies, half, waiter, tr_closing, conn_lost, eof, acqOrder,
                   afterClose, cancelledMid>>

\* drain() resumes: ConnectionResetError once the connection is lost.
DrainResume(t) ==
    /\ UNCHANGED extVars
    /\ cur = NoTask
    /\ pc[t] = "drain"
    /\ IF conn_lost
       THEN Finish(t, "ConnectionResetError")
       ELSE /\ pc' = [pc EXCEPT ![t] = "gets"]
            /\ cur' = t
            /\ UNCHANGED <<outcome, holder, lock_waiters>>
    /\ UNCHANGED <<op, results, hi_reader, buffers, wire, replies, half, waiter,
                   tr_closing, conn_lost, eof, acqOrder, afterClose, cancelledMid, used>>

\* One turn of _read_result / read_redis for the running task: return when all
\* replies of the call are read, else parse the next reply from the current
\* reader, or suspend in _wait_for_data.
ReadStep(t) ==
    /\ UNCHANGED extVars
    /\ cur = t
    /\ pc[t] = "gets"
    /\ UNCHANGED <<op, wire, replies, half, tr_closing, conn_lost, eof, acqOrder,
                   afterClose, cancelledMid, used>>
    /\ IF Len(results[t]) = Expected(t)
       THEN /\ Finish(t, "returned")
            /\ UNCHANGED <<results, hi_reader, buffers, waiter>>
       ELSE LET g == Gets(buffers[hi_reader])
                rest == SubSeq(buffers[hi_reader], g.n + 1, Len(buffers[hi_reader]))
                Take(v) ==
                    /\ buffers' = [buffers EXCEPT ![hi_reader] = rest]
                    /\ UNCHANGED <<hi_reader, waiter>>
                    /\ IF ReadResult(op[t].tag, v) = "keep"
                       THEN /\ results' = [results EXCEPT ![t] = Append(@, v)]
                            /\ UNCHANGED <<pc, outcome, cur, holder, lock_waiters>>
                       ELSE /\ Finish(t, ReadResult(op[t].tag, v))
                            /\ UNCHANGED results
                NoReply ==
                    IF eof
                    THEN /\ hi_reader' = "new"
                         /\ buffers' = [buffers EXCEPT !["new"] = <<>>]
                         /\ Finish(t, "IncompleteReadError")
                         /\ UNCHANGED <<results, waiter>>
                    ELSE /\ waiter' = t
                         /\ pc' = [pc EXCEPT ![t] = "read"]
                         /\ cur' = NoTask
                         /\ UNCHANGED <<outcome, results, holder, lock_waiters,
                                        hi_reader, buffers>>
            IN  CASE g.res = "value" ->
                       Take([rid |-> g.rid, kind |-> replies[g.rid], mode |-> ModeOf(hi_reader)])
                  [] g.res = "false" -> NoReply
                  [] g.res = "garbled" ->
                       \/ /\ Finish(t, "ProtocolError")
                          /\ UNCHANGED <<results, hi_reader, buffers, waiter>>
                       \/ Take([rid |-> 0, kind |-> "garbage", mode |-> ModeOf(hi_reader)])
                       \/ NoReply

\* feed_data: the chunk goes to the current reader and _wakeup_waiter resumes
\* the task suspended in _wait_for_data, which runs before anything else.
FeedData(chunk) ==
    /\ buffers' = [buffers EXCEPT ![hi_reader] = Append(@, chunk)]
    /\ IF waiter # NoTask
       THEN /\ pc' = [pc EXCEPT ![waiter] = "gets"]
            /\ cur' = waiter
            /\ waiter' = NoTask
       ELSE UNCHANGED <<pc, cur, waiter>>

\* Data arrives only on an open transport whose stream has not ended.
CanReceive == cur = NoTask /\ ~tr_closing /\ ~conn_lost /\ ~eof

\* The peer answers the next request and the reply arrives in one chunk.
FeedWhole(k) ==
    /\ UNCHANGED extVars
    /\ CanReceive
    /\ ~half
    /\ Len(replies) < Len(wire)
    /\ replies' = Append(replies, k)
    /\ FeedData([rid |-> Len(replies) + 1, part |-> "whole"])
    /\ UNCHANGED <<op, outcome, results, holder, lock_waiters, hi_reader, wire, half,
                   tr_closing, conn_lost, eof, acqOrder, afterClose, cancelledMid, used>>

\* The peer answers the next request and the first part of the reply arrives.
FeedHead(k) ==
    /\ UNCHANGED extVars
    /\ CanReceive
    /\ ~half
    /\ Len(replies) < Len(wire)
    /\ replies' = Append(replies, k)
    /\ half' = TRUE
    /\ used < MaxEvents
    /\ used' = used + 1
    /\ FeedData([rid |-> Len(replies) + 1, part |-> "head"])
    /\ UNCHANGED <<op, outcome, results, holder, lock_waiters, hi_reader, wire,
                   tr_closing, conn_lost, eof, acqOrder, afterClose, cancelledMid>>

\* The rest of a reply arrives.
FeedTail ==
    /\ UNCHANGED extVars
    /\ CanReceive
    /\ half
    /\ half' = FALSE
    /\ FeedData([rid |-> Len(replies), part |-> "tail"])
    /\ UNCHANGED <<op, outcome, results, holder, lock_waiters, hi_reader, wire, replies,
                   tr_closing, conn_lost, eof, acqOrder, afterClose, cancelledMid, used>>

\* Task t has commands on the wire whose replies it has not read.
MidCycle(t) ==
    /\ \E i \in 1..Len(wire) : wire[i].task = t
    /\ Len(results[t]) < op[t].n

\* The task running execute / execute_many is cancelled at one of its awaits:
\* CancelledError leaves `async with self._lock`, which releases the lock.
Cancel(t) ==
    /\ UNCHANGED extVars
    /\ cur = NoTask
    /\ pc[t] \in {"lock", "drain", "read"}
    /\ op[t].kind \in {"execute", "execute_many"}
    /\ pc' = [pc EXCEPT ![t] = "done"]
    /\ outcome' = [outcome EXCEPT ![t] = "CancelledError"]
    /\ IF pc[t] = "lock" /\ holder # t
       THEN /\ lock_waiters' = SelectSeq(lock_waiters, LAMBDA u : u # t)
            /\ UNCHANGED holder
       ELSE ReleaseLock
    /\ waiter' = IF waiter = t THEN NoTask ELSE waiter
    /\ cancelledMid' = (cancelledMid \/ MidCycle(t))
    /\ used < MaxEvents
    /\ used' = used + 1
    /\ UNCHANGED <<op, results, hi_reader, buffers, wire, replies, half, cur,
                   tr_closing, conn_lost, eof, acqOrder, afterClose>>

\* close() inside the lock: self._writer.close(); await self._writer.wait_closed().
CloseTransport(t) ==
    /\ UNCHANGED extVars
    /\ cur = t
    /\ pc[t] = "locked"
    /\ op[t].kind = "close"
    /\ IF conn_lost
       THEN /\ Finish(t, "returned")
            /\ UNCHANGED tr_closing
       ELSE /\ tr_closing' = TRUE
            /\ pc' = [pc EXCEPT ![t] = "wait_closed"]
            /\ cur' = NoTask
            /\ UNCHANGED <<outcome, holder, lock_waiters>>
    /\ UNCHANGED <<op, results, hi_reader, buffers, wire, replies, half, waiter,
                   conn_lost, eof, acqOrder, afterClose, cancelledMid, used>>

\* The loop calls protocol.connection_lost(None): feed_eof() on the reader.
ConnectionLost ==
    /\ UNCHANGED extVars
    /\ cur = NoTask
    /\ tr_closing
    /\ ~conn_lost
    /\ conn_lost' = TRUE
    /\ eof' = TRUE
    /\ IF waiter # NoTask
       THEN /\ pc' = [pc EXCEPT ![waiter] = "gets"]
            /\ cur' = waiter
            /\ waiter' = NoTask
       ELSE UNCHANGED <<pc, cur, waiter>>
    /\ UNCHANGED <<op, outcome, results, holder, lock_waiters, hi_reader, buffers, wire,
                   replies, half, tr_closing, acqOrder, afterClose, cancelledMid, used>>

\* wait_closed() returns and close() leaves the lock.
CloseDone(t) ==
    /\ UNCHANGED extVars
    /\ cur = NoTask
    /\ pc[t] = "wait_closed"
    /\ conn_lost
    /\ Finish(t, "returned")
    /\ UNCHANGED <<op, results, hi_reader, buffers, wire, replies, half, waiter,
                   tr_closing, conn_lost, eof, acqOrder, afterClose, cancelledMid, used>>

Next ==
    \/ \E t \in Tasks, tag \in Tags : Execute(t, tag)
    \/ \E t \in Tasks, tag \in Tags, n \in 1..MaxBatch : ExecuteMany(t, tag, n)
    \/ \E t \in Tasks : Close(t)
    \/ \E t \in Tasks : LockResume(t)
    \/ \E t \in Tasks : Write(t)
    \/ \E t \in Tasks : DrainResume(t)
    \/ \E t \in Tasks : ReadStep(t)
    \/ \E k \in ReplyKinds : FeedWhole(k)
    \/ \E k \in ReplyKinds : FeedHead(k)
    \/ FeedTail
    \/ \E t \in Tasks : Cancel(t)
    \/ \E t \in Tasks : CloseTransport(t)
    \/ ConnectionLost
    \/ \E t \in Tasks : CloseDone(t)

Spec == Init /\ [][Next]_vars

\* ----------------------------------------------------------- end of stream

\* The peer shuts its side down: protocol.eof_received() calls feed_eof(), which
\* sets _eof and wakes the task suspended in _wait_for_data.  The transport
\* stays open for writing.
PeerEof ==
    /\ UNCHANGED extVars
    /\ CanReceive
    /\ eof' = TRUE
    /\ IF waiter # NoTask
       THEN /\ pc' = [pc EXCEPT ![waiter] = "gets"]
            /\ cur' = waiter
            /\ waiter' = NoTask
       ELSE UNCHANGED <<pc, cur, waiter>>
    /\ UNCHANGED <<op, outcome, results, holder, lock_waiters, hi_reader, buffers, wire,
                   replies, half, tr_closing, conn_lost, acqOrder, afterClose,
                   cancelledMid, used>>

\* The connection used by tasks that call execute and execute_many while the
\* peer may end the stream at any moment.
NextEof ==
    \/ \E t \in Tasks, tag \in Tags : Execute(t, tag)
    \/ \E t \in Tasks, tag \in Tags, n \in 1..MaxBatch : ExecuteMany(t, tag, n)
    \/ \E t \in Tasks : LockResume(t)
    \/ \E t \in Tasks : Write(t)
    \/ \E t \in Tasks : DrainResume(t)
    \/ \E t \in Tasks : ReadStep(t)
    \/ \E k \in ReplyKinds : FeedWhole(k)
    \/ \E k \in ReplyKinds : FeedHead(k)
    \/ FeedTail
    \/ PeerEof

SpecEof == Init /\ [][NextEof]_vars

\* The connection used by tasks that call execute and close, with every way a
\* call can fail on its own: an unexpected reply, the end of the stream, a
\* closed transport.
NextLive ==
    \/ \E t \in Tasks, tag \in Tags : Execute(t, tag)
    \/ \E t \in Tasks : Close(t)
    \/ \E t \in Tasks : LockResume(t)
    \/ \E t \in Tasks : Write(t)
    \/ \E t \in Tasks : DrainResume(t)
    \/ \E t \in Tasks : ReadStep(t)
    \/ \E k \in ReplyKinds : FeedWhole(k)
    \/ PeerEof
    \/ \E t \in Tasks : CloseTransport(t)
    \/ ConnectionLost
    \/ \E t \in Tasks : CloseDone(t)

\* The event loop runs a task that Lock.release has woken.
Fairness == WF_vars(\E t \in Tasks : LockResume(t))

SpecLive == Init /\ [][NextLive]_vars /\ Fairness

\* ------------------------------------------------------------ the pipeline

Range(q) == {q[i] : i \in 1..Len(q)}

\* The commands some flush has handed to execute_many, and the recorded ones
\* no flush has handed over.
Handed == UNION {Range(batchOf[t]) : t \in Tasks}
Unflushed == Range(pipeline) \ Handed

\* The mutated flush: execute_many is called for an empty batch too.
HasCommandsAlways(p) == TRUE

\* CommandsPipeline.execute: `if self._pipeline:`.
HasCommands(p) == p # <<>>

\* The mutated exit: the batch is flushed whatever ended the block.
AexitFlushesAlways(exc_type) == TRUE

\* PipelineContext.__aexit__: `if exc_type:` drops the pipeline, else it is flushed.
AexitFlushes(exc_type) == ~exc_type

\* The owner of the block is running and awaits nothing.
OwnerRuns == cur = NoTask /\ scope = "in" /\ flushBy = NoTask

\* PipelineContext.__aenter__: a new CommandsPipeline with an empty list.
Aenter ==
    /\ UNCHANGED <<flowVars, encVars, restVars>>
    /\ cur = NoTask
    /\ scope = "out"
    /\ scope' = "in"
    /\ ctx_pipeline' = "set"
    /\ pipeline' = <<>>
    /\ UNCHANGED <<nCmds, flushBy, flushHow, batchOf, flushes, ret, abandoned, late>>
    /\ UNCHANGED connVars

\* CommandsPipeline._execute, reached through any command method of p:
\* the command is appended to the list.
PipelineAppend ==
    /\ UNCHANGED <<flowVars, encVars, restVars>>
    /\ OwnerRuns
    /\ nCmds < MaxCmds
    /\ Len(pipeline) < MaxBatch
    /\ nCmds' = nCmds + 1
    /\ pipeline' = Append(pipeline, nCmds + 1)
    /\ UNCHANGED <<scope, ctx_pipeline, flushBy, flushHow, batchOf, flushes, ret, abandoned, late>>
    /\ UNCHANGED connVars

\* CommandsPipeline.execute(return_as) up to its await: with commands
\* recorded the call of execute_many is made by task t, else [] is returned
\* at once.  `how` tells who flushes: the owner or __aexit__.
PipelineFlush(t, tag, how) ==
    IF HasCommands(pipeline)
    THEN /\ ExecuteManyCall(t, tag, Len(pipeline))
         /\ batchOf' = [batchOf EXCEPT ![t] = pipeline]
         /\ flushBy' = t
         /\ flushHow' = how
         /\ flushes' = Append(flushes, [n |-> Len(pipeline), task |-> t])
         /\ ret' = NoRet("pending")
         /\ UNCHANGED <<scope, pipeline>>
    ELSE /\ flushes' = Append(flushes, [n |-> 0, task |-> NoTask])
         /\ ret' = [st |-> "values", vals |-> <<>>]
         /\ scope' = IF how = "exit" THEN "exited" ELSE scope
         /\ UNCHANGED <<pipeline, flushBy, flushHow, batchOf>>
         /\ UNCHANGED connVars

\* The owner calls `await p.execute(return_as)` inside the block.
PipelineExecute(t, tag) ==
    /\ UNCHANGED <<flowVars, encVars, restVars>>
    /\ OwnerRuns
    /\ Len(flushes) < MaxFlushes
    /\ PipelineFlush(t, tag, "explicit")
    /\ UNCHANGED <<ctx_pipeline, nCmds, abandoned, late>>

\* PipelineContext.__aexit__(exc_type, ...): the block ends, by an error
\* (exc_type set) or normally.
Aexit(t, exc_type) ==
    /\ UNCHANGED <<flowVars, encVars, restVars>>
    /\ OwnerRuns
    /\ abandoned' = IF exc_type THEN Unflushed ELSE abandoned
    /\ UNCHANGED <<nCmds, late>>
    /\ IF ~AexitFlushes(exc_type)
       THEN /\ ctx_pipeline' = "none"
            /\ scope' = "aborted"
            /\ UNCHANGED <<pipeline, flushBy, flushHow, batchOf, flushes, ret>>
            /\ UNCHANGED connVars
       ELSE /\ ctx_pipeline = "set"
            /\ PipelineFlush(t, "none", "exit")
            /\ UNCHANGED ctx_pipeline

\* The execute_many call of the flush is over: CommandsPipeline.execute
\* empties the list and returns the values, or the exception of the call
\* passes through it (and through __aexit__ when that made the flush).
PipelineExecuteReturn ==
    /\ UNCHANGED <<flowVars, encVars, restVars>>
    /\ cur = NoTask
    /\ flushBy # NoTask
    /\ pc[flushBy] = "done"
    /\ flushBy' = NoTask
    /\ flushHow' = "none"
    /\ scope' = IF flushHow = "exit" THEN "exited" ELSE scope
    /\ IF outcome[flushBy] = "returned"
       THEN pipeline' = <<>> /\ ret' = [st |-> "values", vals |-> results[flushBy]]
       ELSE ret' = NoRet("raised") /\ UNCHANGED pipeline
    /\ late' = 0
    /\ UNCHANGED <<ctx_pipeline, nCmds, batchOf, flushes, abandoned>>
    /\ UNCHANGED connVars

\* One pipeline block on the connection, and a task that may close it.
NextPipe ==
    \/ Aenter
    \/ PipelineAppend
    \/ \E t \in Tasks, tag \in Tags : PipelineExecute(t, tag)
    \/ \E t \in Tasks, exc_type \in BOOLEAN : Aexit(t, exc_type)
    \/ PipelineExecuteReturn
    \/ \E t \in Tasks : Close(t)
    \/ \E t \in Tasks : LockResume(t)
    \/ \E t \in Tasks : Write(t)
    \/ \E t \in Tasks : DrainResume(t)
    \/ \E t \in Tasks : ReadStep(t)
    \/ \E k \in ReplyKinds : FeedWhole(k)
    \/ \E k \in ReplyKinds : FeedHead(k)
    \/ FeedTail
    \/ \E t \in Tasks : Cancel(t)
    \/ \E t \in Tasks : CloseTransport(t)
    \/ ConnectionLost
    \/ \E t \in Tasks : CloseDone(t)

SpecPipe == Init /\ [][NextPipe]_vars

\* CommandsPipeline._execute called by another task that shares p while the
\* flush is suspended in execute_many: the command goes on the very list
\* execute_many was given.  Its bytes were encoded before; its length is taken
\* when the reading starts, after the lock and the drain.
PipelineAppendShared ==
    /\ UNCHANGED <<flowVars, encVars, restVars>>
    /\ cur = NoTask
    /\ scope = "in"
    /\ flushBy # NoTask
    /\ pc[flushBy] \in {"lock", "drain", "read"}
    /\ nCmds < MaxCmds
    /\ Len(pipeline) < MaxBatch
    /\ nCmds' = nCmds + 1
    /\ pipeline' = Append(pipeline, nCmds + 1)
    /\ late' = IF pc[flushBy] \in {"lock", "drain"} THEN late + 1 ELSE late
    /\ UNCHANGED <<scope, ctx_pipeline, flushBy, flushHow, batchOf, flushes, ret, abandoned>>
    /\ UNCHANGED connVars

\* The pipeline block with a second task that holds p.
NextShare ==
    \/ Aenter
    \/ PipelineAppend
    \/ PipelineAppendShared
    \/ \E t \in Tasks, tag \in Tags : PipelineExecute(t, tag)
    \/ \E t \in Tasks, exc_type \in BOOLEAN : Aexit(t, exc_type)
    \/ PipelineExecuteReturn
    \/ \E t \in Tasks : Close(t)
    \/ \E t \in Tasks : LockResume(t)
    \/ \E t \in Tasks : Write(t)
    \/ \E t \in Tasks : DrainResume(t)
    \/ \E t \in Tasks : ReadStep(t)
    \/ \E k \in ReplyKinds : FeedWhole(k)
    \/ \E k \in ReplyKinds : FeedHead(k)
    \/ FeedTail
    \/ \E t \in Tasks : Cancel(t)
    \/ \E t \in Tasks : CloseTransport(t)
    \/ ConnectionLost
    \/ \E t \in Tasks : CloseDone(t)

SpecShare == Init /\ [][NextShare]_vars

\* ------------------------------------------------------------ flow control

\* The mutated threshold: reading is paused above limit already.
ShouldPauseAtLimit(tr, p, len) == tr # "none" /\ ~p /\ len > Limit

\* feed_data: `self._transport is not None and not self._paused and
\* self.hi_reader.len() > 2 * self._limit`.
ShouldPause(tr, p, len) == tr # "none" /\ ~p /\ len > 2 * Limit

\* The mutated resume: any successful parse resumes a paused transport.
ShouldResumeAlways(p, len) == p

\* _maybe_resume_transport: `self._paused and self.hi_reader.len() <= self._limit`.
ShouldResume(p, len) == p /\ len <= Limit

\* The mutated handler of NotImplementedError: the transport is kept.
ForgetNothing(tr) == tr

\* `self._transport = None` once pause_reading has raised NotImplementedError.
Forget(tr) == "none"

\* feed_data(data) with n = len(data) > 0 bytes: feed the decoder, wake the
\* waiter, pause the transport when too much is buffered.  A paused transport
\* delivers nothing.
FlowFeed(n) ==
    /\ ~paused
    /\ hi_len + n <= MaxBuf
    /\ hi_len' = hi_len + n
    /\ rd_waiting' = FALSE
    /\ IF ShouldPause(transport, paused, hi_len + n)
       THEN IF transport = "pausable"
            THEN /\ paused' = TRUE
                 /\ tr_depth' = tr_depth + 1
                 /\ UNCHANGED <<transport, tr_failed>>
            ELSE /\ transport' = Forget(transport)
                 /\ tr_failed' = tr_failed + 1
                 /\ UNCHANGED <<paused, tr_depth>>
       ELSE UNCHANGED <<transport, paused, tr_depth, tr_failed>>
    /\ flow_ev' = [step |-> "feed", was_paused |-> paused]
    /\ UNCHANGED need
    /\ UNCHANGED <<connVars, pipeVars, encVars, restVars>>

\* read_redis, one turn of its loop with a complete reply buffered: gets()
\* returns it and _maybe_resume_transport runs.
FlowParse(next) ==
    /\ ~rd_waiting
    /\ hi_len >= need
    /\ hi_len' = hi_len - need
    /\ need' = next
    /\ paused' = IF ShouldResume(paused, hi_len - need) THEN FALSE ELSE paused
    /\ tr_depth' = IF ShouldResume(paused, hi_len - need) THEN tr_depth - 1 ELSE tr_depth
    /\ flow_ev' = [step |-> "parse", was_paused |-> paused]
    /\ UNCHANGED <<transport, rd_waiting, tr_failed>>
    /\ UNCHANGED <<connVars, pipeVars, encVars, restVars>>

\* The mutated wait: the reader suspends and leaves the transport paused.
FlowWaitStaysPaused ==
    /\ ~rd_waiting
    /\ hi_len < need
    /\ rd_waiting' = TRUE
    /\ flow_ev' = [step |-> "wait", was_paused |-> paused]
    /\ UNCHANGED <<transport, paused, hi_len, need, tr_depth, tr_failed>>
    /\ UNCHANGED <<connVars, pipeVars, encVars, restVars>>

\* read_redis, one turn of its loop with no complete reply buffered: gets()
\* returns False and _wait_for_data suspends the reader; asyncio's
\* _wait_for_data resumes a paused transport before it waits.
FlowWait ==
    /\ ~rd_waiting
    /\ hi_len < need
    /\ rd_waiting' = TRUE
    /\ paused' = FALSE
    /\ tr_depth' = IF paused THEN tr_depth - 1 ELSE tr_depth
    /\ flow_ev' = [step |-> "wait", was_paused |-> paused]
    /\ UNCHANGED <<transport, hi_len, need, tr_failed>>
    /\ UNCHANGED <<connVars, pipeVars, encVars, restVars>>

\* A reader on a transport that can pause, or on one that cannot.
InitFlow ==
    /\ ConnInit /\ PipeInit /\ EncInit /\ RestInit /\ FlowIdle
    /\ transport \in {"pausable", "fixed"}
    /\ need \in ReplySizes

NextFlow ==
    \/ \E n \in 1..MaxChunk : FlowFeed(n)
    \/ \E next \in ReplySizes : FlowParse(next)
    \/ FlowWait

SpecFlow == InitFlow /\ [][NextFlow]_vars

\* The peer goes on sending while the transport reads, and the reader task
\* runs when it can.
FlowFairness ==
    /\ WF_vars(\E n \in 1..MaxChunk : FlowFeed(n))
    /\ WF_vars(\E next \in ReplySizes : FlowParse(next))
    /\ WF_vars(FlowWait)

SpecFlowLive == InitFlow /\ [][NextFlow]_vars /\ FlowFairness

\* ------------------------------------------------------------ the encoder

CRLF == <<13, 10>>

\* The arguments tried: b'GET', b'' , ten bytes, a bytearray holding CR LF,
\* the str 'e-acute' (one character, two bytes in UTF-8), the int -12, the
\* float 1.5, and None (not supported).
ArgValues ==
    { [type |-> "bytes", val |-> <<71, 69, 84>>],
      [type |-> "bytes", val |-> <<>>],
      [type |-> "bytes", val |-> <<107, 107, 107, 107, 107, 107, 107, 107, 107, 107>>],
      [type |-> "bytearray", val |-> <<13, 10>>],
      [type |-> "str", val |-> <<233>>],
      [type |-> "int", val |-> <<-12>>],
      [type |-> "float", val |-> <<1, 5>>],
      [type |-> "NoneType", val |-> <<>>] }

\* The mutated type check: None is taken as an argument too.
SupportedAndNone == {"bytes", "str", "int", "float", "bytearray", "NoneType"}

Supported == {"bytes", "str", "int", "float", "bytearray"}

\* The commands tried: up to MaxArgs arguments each.
Commands == UNION {[1..n -> ArgValues] : n \in 0..MaxArgs}

RECURSIVE Dec(_)
\* b'%d' % n for n >= 0: the decimal digits.
Dec(n) == IF n < 10 THEN <<48 + n>> ELSE Dec(n \div 10) \o <<48 + (n % 10)>>

\* b'%d' % arg.
IntBytes(i) == IF i < 0 THEN <<45>> \o Dec(0 - i) ELSE Dec(i)

RECURSIVE Utf8(_)
\* str.encode('utf8') for code points below 2048.
Utf8(cps) ==
    IF cps = <<>> THEN <<>>
    ELSE (IF cps[1] < 128 THEN <<cps[1]>>
          ELSE <<192 + (cps[1] \div 64), 128 + (cps[1] % 64)>>) \o Utf8(Tail(cps))

\* The isinstance chain of _encode_command: the bytes of one argument.  A
\* float <<w, f>> is the number w.f, whose f-string is its digits.
BinArg(arg) ==
    CASE arg.type = "bytes" -> arg.val
      [] arg.type = "str" -> Utf8(arg.val)
      [] arg.type = "int" -> IntBytes(arg.val[1])
      [] arg.type = "float" -> IntBytes(arg.val[1]) \o <<46>> \o Dec(arg.val[2])
      [] arg.type = "bytearray" -> arg.val
      [] OTHER -> <<>>

\* The mutated length: the characters of a str are counted, not its bytes.
BlobLenOfChars(arg, bin_arg) ==
    IF arg.type = "str" THEN Len(arg.val) ELSE Len(bin_arg)

\* `len(bin_arg)` in b'$%d\r\n%s\r\n' % (len(bin_arg), bin_arg).
BlobLen(arg, bin_arg) == Len(bin_arg)

RECURSIVE EncodeArgs(_, _, _)
\* The loop of _encode_command from argument i on: the buffer it leaves and
\* whether it raised TypeError.
EncodeArgs(buf, args, i) ==
    IF i > Len(args) THEN [buf |-> buf, err |-> FALSE]
    ELSE IF args[i].type \notin Supported THEN [buf |-> buf, err |-> TRUE]
    ELSE EncodeArgs(buf \o <<36>> \o Dec(BlobLen(args[i], BinArg(args[i]))) \o CRLF
                        \o BinArg(args[i]) \o CRLF,
                    args, i + 1)

\* _encode_command(buf, args).
EncodeCommandInto(buf, args) ==
    EncodeArgs(buf \o <<42>> \o Dec(Len(args)) \o CRLF, args, 1)

\* One call of _encode_command on the shared buffer (the one call of execute,
\* one turn of the loop of execute_many).  After a TypeError the call is over.
EncodeCommand(args) ==
    /\ ~enc_err
    /\ Len(enc_cmds) < MaxEncCmds
    /\ enc_cmds' = Append(enc_cmds, args)
    /\ enc_buf' = EncodeCommandInto(enc_buf, args).buf
    /\ enc_err' = EncodeCommandInto(enc_buf, args).err
    /\ enc_parts' = Append(enc_parts, EncodeCommandInto(<<>>, args).buf)
    /\ UNCHANGED <<connVars, pipeVars, flowVars, restVars>>

NextEnc == \E args \in Commands : EncodeCommand(args)

SpecEnc == Init /\ [][NextEnc]_vars

\* The decimal number written from position i of b on.
RECURSIVE ReadNat(_, _, _)
ReadNat(b, i, acc) ==
    IF i <= Len(b) /\ b[i] \in 48..57
    THEN ReadNat(b, i + 1, acc * 10 + (b[i] - 48))
    ELSE [val |-> acc, pos |-> i]

\* ------------------------------------------------- calls with arguments

\* The commands a caller passes: one that encodes and one that holds a None.
CallCommands ==
    { <<[type |-> "bytes", val |-> <<71, 69, 84>>]>>,
      <<[type |-> "bytes", val |-> <<71, 69, 84>>], [type |-> "NoneType", val |-> <<>>]>> }

\* The decode tags they pass.
CallTags == {"none", "str"}

\* The batches a caller passes to execute_many.
CallBatches == UNION {[1..n -> CallCommands] : n \in 1..MaxBatch}

RECURSIVE EncodeAll(_, _, _)
\* `for args in commands: self._encode_command(buf, args)` from command i on.
EncodeAll(buf, cmds, i) ==
    IF i > Len(cmds) THEN [buf |-> buf, err |-> FALSE]
    ELSE IF EncodeCommandInto(buf, cmds[i]).err THEN [buf |-> buf, err |-> TRUE]
    ELSE EncodeAll(EncodeCommandInto(buf, cmds[i]).buf, cmds, i + 1)

\* The call of task t leaves execute / execute_many by the TypeError of
\* _encode_command, raised before _set_reader_encoding and before the lock.
RaiseTypeError(t, kind, tag, n) ==
    /\ CanCall(t)
    /\ op' = [op EXCEPT ![t] = [kind |-> kind, tag |-> tag, n |-> n]]
    /\ pc' = [pc EXCEPT ![t] = "done"]
    /\ outcome' = [outcome EXCEPT ![t] = "TypeError"]
    /\ afterClose' = [afterClose EXCEPT ![t] = CloseReturned]
    /\ UNCHANGED <<results, holder, lock_waiters, hi_reader, buffers, wire, replies, half,
                   waiter, cur, tr_closing, conn_lost, eof, acqOrder, cancelledMid, used>>

\* RawConnection.execute(args, return_as) from its first line.
ExecuteArgs(t, args, tag) ==
    /\ CanCall(t)
    /\ args_of' = [args_of EXCEPT ![t] = <<args>>]
    /\ IF EncodeCommandInto(<<>>, args).err
       THEN RaiseTypeError(t, "execute", tag, 1)
       ELSE ExecuteCall(t, tag)
    /\ UNCHANGED <<pipeVars, flowVars, encVars, decVars, fragVars>>

\* RawConnection.execute_many(commands, return_as) from its first line.
ExecuteManyArgs(t, cmds, tag) ==
    /\ CanCall(t)
    /\ args_of' = [args_of EXCEPT ![t] = cmds]
    /\ IF EncodeAll(<<>>, cmds, 1).err
       THEN RaiseTypeError(t, "execute_many", tag, Len(cmds))
       ELSE ExecuteManyCall(t, tag, Len(cmds))
    /\ UNCHANGED <<pipeVars, flowVars, encVars, decVars, fragVars>>

\* The connection used by tasks that pass their own arguments.
NextArgs ==
    \/ \E t \in Tasks, args \in CallCommands, tag \in CallTags : ExecuteArgs(t, args, tag)
    \/ \E t \in Tasks, cmds \in CallBatches, tag \in CallTags : ExecuteManyArgs(t, cmds, tag)
    \/ \E t \in Tasks : LockResume(t)
    \/ \E t \in Tasks : Write(t)
    \/ \E t \in Tasks : DrainResume(t)
    \/ \E t \in Tasks : ReadStep(t)
    \/ \E k \in ReplyKinds : FeedWhole(k)

SpecArgs == Init /\ [][NextArgs]_vars

\* ------------------------------------------------- converting the replies

\* The keys of return_as_lookup.
ConvTags == {"int", "float", "bool"}

\* The blobs tried: up to two bytes out of '0', '1' and 'x'.
Blobs == UNION {[1..n -> {48, 49, 120}] : n \in 0..2}

\* The replies tried: the blobs, two integers, arrays of the blobs b'1', b'10'.
RawReplies ==
    {RawBlob(b) : b \in Blobs} \cup {RawInt(0), RawInt(7)}
    \cup {RawArray(a) : a \in UNION {[1..n -> {<<49>>, <<49, 48>>}] : n \in 0..MaxItems}}

\* int(b) and float(b) accept decimal digits (here: without sign or spaces).
IsNumber(b) == b # <<>> /\ \A i \in 1..Len(b) : b[i] \in 48..57

\* func(b) for b bytes: int -> the number, float -> the number as a float,
\* bool -> whether b is not empty; "ValueError" when int / float reject it.
Convert(tag, b) ==
    IF tag = "bool" THEN [type |-> "bool", n |-> IF b = <<>> THEN 0 ELSE 1]
    ELSE IF IsNumber(b) THEN [type |-> tag, n |-> ReadNat(b, 1, 0).val]
    ELSE [type |-> "ValueError", n |-> 0]

\* _read_result for a tag of return_as_lookup: `if isinstance(result, bytes):
\* return func(result)` else `[func(r) for r in result]`, which raises
\* TypeError when result is an int.
ReadConverted(tag, raw) ==
    IF raw.kind = "blob"
    THEN IF Convert(tag, raw.blob).type = "ValueError"
         THEN [st |-> "ValueError", vals |-> <<>>]
         ELSE [st |-> "value", vals |-> <<Convert(tag, raw.blob)>>]
    ELSE IF raw.kind = "int" THEN [st |-> "TypeError", vals |-> <<>>]
    ELSE IF \E i \in 1..Len(raw.items) : Convert(tag, raw.items[i]).type = "ValueError"
         THEN [st |-> "ValueError", vals |-> <<>>]
         ELSE [st |-> "list",
               vals |-> [i \in 1..Len(raw.items) |-> Convert(tag, raw.items[i])]]

\* _read_result(return_as) once read_redis has returned dec_raw.
Decode ==
    /\ dec_out = NoOut
    /\ dec_out' = ReadConverted(dec_tag, dec_raw)
    /\ UNCHANGED <<dec_tag, dec_raw>>
    /\ UNCHANGED <<connVars, pipeVars, flowVars, encVars, callVars, fragVars>>

InitDec ==
    /\ ConnInit /\ PipeInit /\ FlowInit /\ EncInit /\ CallInit /\ FragInit
    /\ dec_tag \in ConvTags
    /\ dec_raw \in RawReplies
    /\ dec_out = NoOut

NextDec == Decode

SpecDec == InitDec /\ [][NextDec]_vars

\* ------------------------------------------------ replies fed in pieces

\* The valid replies tried, with the values they stand for: +OK, -E, :12,
\* the blob foo, a blob that is CR LF, nil, and the array [b'a', b''].
FragReplies ==
    { [bytes |-> <<43, 79, 75, 13, 10>>, val |-> RawBlob(<<79, 75>>)],
      [bytes |-> <<45, 69, 13, 10>>, val |-> RawErr(<<69>>)],
      [bytes |-> <<58, 49, 50, 13, 10>>, val |-> RawInt(12)],
      [bytes |-> <<36, 51, 13, 10, 102, 111, 111, 13, 10>>, val |-> RawBlob(<<102, 111, 111>>)],
      [bytes |-> <<36, 50, 13, 10, 13, 10, 13, 10>>, val |-> RawBlob(<<13, 10>>)],
      [bytes |-> <<36, 45, 49, 13, 10>>, val |-> RawNil],
      [bytes |-> <<42, 50, 13, 10, 36, 49, 13, 10, 97, 13, 10, 36, 48, 13, 10, 13, 10>>,
       val |-> RawArray(<<<<97>>, <<>>>>)] }

RECURSIVE FindCRLF(_, _)
\* The position of the first CR LF at or after i (0: none buffered).
FindCRLF(b, i) ==
    IF i + 1 > Len(b) THEN 0
    ELSE IF b[i] = 13 /\ b[i + 1] = 10 THEN i
    ELSE FindCRLF(b, i + 1)

NotYet == [res |-> "false", val |-> NoValue, next |-> 0]

\* The mutated reader: a blob counts as complete before its CR LF has come.
BlobCompleteEarly(b, from, n) == from + n - 1 <= Len(b)

\* A blob of n bytes starting at `from` is complete with its closing CR LF.
BlobComplete(b, from, n) == from + n + 1 <= Len(b)

\* hiredis on one reply that is not an array, starting at position i.
ParseScalar(b, i) ==
    IF i > Len(b) \/ FindCRLF(b, i + 1) = 0 THEN NotYet
    ELSE LET e == FindCRLF(b, i + 1)
             line == SubSeq(b, i + 1, e - 1)
         IN  CASE b[i] = 43 -> [res |-> "value", val |-> RawBlob(line), next |-> e + 2]
               [] b[i] = 45 -> [res |-> "value", val |-> RawErr(line), next |-> e + 2]
               [] b[i] = 58 -> [res |-> "value", val |-> RawInt(ReadNat(line, 1, 0).val),
                                next |-> e + 2]
               [] b[i] = 36 ->
                    IF line = <<45, 49>>
                    THEN [res |-> "value", val |-> RawNil, next |-> e + 2]
                    ELSE LET n == ReadNat(line, 1, 0).val
                         IN  IF BlobComplete(b, e + 2, n)
                             THEN [res |-> "value",
                                   val |-> RawBlob(SubSeq(b, e + 2, e + 1 + n)),
                                   next |-> e + 2 + n + 2]
                             ELSE NotYet
               [] OTHER -> [res |-> "error", val |-> NoValue, next |-> 0]

RECURSIVE ParseItems(_, _, _, _)
\* The n remaining elements of an array of blobs, starting at position i.
ParseItems(b, i, n, acc) ==
    IF n = 0 THEN [res |-> "value", val |-> RawArray(acc), next |-> i]
    ELSE LET p == ParseScalar(b, i)
         IN  IF p.res = "value" THEN ParseItems(b, p.next, n - 1, Append(acc, p.val.blob))
             ELSE [res |-> p.res, val |-> NoValue, next |-> 0]

\* hi_reader.gets() on the buffered bytes b: the first reply, if complete.
GetsBytes(b) ==
    IF b = <<>> THEN NotYet
    ELSE IF b[1] = 42
    THEN IF FindCRLF(b, 2) = 0 THEN NotYet
         ELSE ParseItems(b, FindCRLF(b, 2) + 2,
                         ReadNat(SubSeq(b, 2, FindCRLF(b, 2) - 1), 1, 0).val, <<>>)
    ELSE ParseScalar(b, 1)

\* The transport delivers the next n bytes: feed_data feeds them to hi_reader
\* and wakes the waiter.
FragFeed(n) ==
    /\ fr_fed + n <= Len(fr_reply.bytes)
    /\ fr_buf' = fr_buf \o SubSeq(fr_reply.bytes, fr_fed + 1, fr_fed + n)
    /\ fr_fed' = fr_fed + n
    /\ fr_wait' = FALSE
    /\ fr_pieces' = fr_pieces + 1
    /\ UNCHANGED <<fr_reply, fr_got, fr_at>>
    /\ UNCHANGED <<connVars, pipeVars, flowVars, encVars, callVars, decVars>>

\* One turn of the loop of read_redis: return the reply gets() gives, or
\* suspend in _wait_for_data.
FragRead ==
    /\ fr_got = NoValue
    /\ ~fr_wait
    /\ GetsBytes(fr_buf).res # "error"
    /\ IF GetsBytes(fr_buf).res = "value"
       THEN /\ fr_got' = GetsBytes(fr_buf).val
            /\ fr_buf' = SubSeq(fr_buf, GetsBytes(fr_buf).next, Len(fr_buf))
            /\ fr_at' = fr_fed
            /\ UNCHANGED fr_wait
       ELSE /\ fr_wait' = TRUE
            /\ UNCHANGED <<fr_got, fr_buf, fr_at>>
    /\ UNCHANGED <<fr_reply, fr_fed, fr_pieces>>
    /\ UNCHANGED <<connVars, pipeVars, flowVars, encVars, callVars, decVars>>

InitFrag ==
    /\ ConnInit /\ PipeInit /\ FlowInit /\ EncInit /\ CallInit /\ DecInit
    /\ FragIdle
    /\ fr_reply \in FragReplies

NextFrag ==
    \/ \E n \in 1..MaxPiece : FragFeed(n)
    \/ FragRead

SpecFrag == InitFrag /\ [][NextFrag]_vars

\* ------------------------------------------------------- derived notions

Called(t) == op[t].kind # "none"
IsExecute(t) == op[t].kind = "execute"
IsExecuteMany(t) == op[t].kind = "execute_many"
IsClose(t) == op[t].kind = "close"
Done(t) == pc[t] = "done"
Returned(t) == Done(t) /\ outcome[t] = "returned"

\* Task t is inside `async with self._lock`.
InCycle(t) == pc[t] \in {"locked", "drain", "gets", "read", "wait_closed"}

\* The positions of task t's commands on the wire, and the one of command i.
OwnRids(t) == {i \in 1..Len(wire) : wire[i].task = t}
RidOf(t, i) == CHOOSE r \in OwnRids(t) : wire[r].idx = i

\* The replies read_redis has handed to task t: the ones kept, and the one
\* the 'ok' comparison rejected.
Consumed(t) == Len(results[t]) + (IF outcome[t] = "RuntimeError" THEN 1 ELSE 0)

\* Every value task t holds is the reply to its own command of the same position.
OwnReplies(t) ==
    \A i \in 1..Len(results[t]) :
        /\ results[t][i].rid \in OwnRids(t)
        /\ wire[results[t][i].rid].idx = i

\* No two tasks are inside the lock together, and the one inside owns it.
OneInCycle ==
    \A t \in Tasks : InCycle(t) =>
        /\ holder = t
        /\ \A u \in Tasks : u # t => ~InCycle(u)

NoCancel == \A t \in Tasks : outcome[t] # "CancelledError"

\* ------------------------------------------------------------------ claims

\* C1: when tasks only call execute and none is cancelled, no two calls are
\* between write and read together, and a call that returns holds the reply
\* to its own request.
C1_OwnReply ==
    (NoCancel /\ \A t \in Tasks : Called(t) => IsExecute(t)) =>
        /\ OneInCycle
        /\ \A t \in Tasks : Returned(t) => (Len(results[t]) = 1 /\ OwnReplies(t))

\* C2: every reply an execute call holds was parsed in the mode of the call's
\* own return_as (text for 'str', binary otherwise).
C2_OwnDecodeMode ==
    \A t \in Tasks : IsExecute(t) =>
        \A i \in 1..Len(results[t]) :
            results[t][i].mode = ModeOf(ReaderFor(op[t].tag))

\* C3: an execute_many with return_as 'ok' that fails on a reply that is not
\* the expected status has read all N replies of its batch.
C3_DrainsBeforeFailing ==
    \A t \in Tasks :
        (IsExecuteMany(t) /\ op[t].tag = "ok" /\ Done(t) /\ outcome[t] = "RuntimeError")
            => Consumed(t) = op[t].n

\* C4: (no task being cancelled) an execute_many that returns has put its N
\* commands on the wire in one piece, holds N values, value i being the reply
\* to command i, and nobody else was inside the lock meanwhile.
C4_BatchRoundTrip ==
    /\ OneInCycle
    /\ \A t \in Tasks : (NoCancel /\ IsExecuteMany(t) /\ Returned(t)) =>
        /\ Cardinality(OwnRids(t)) = op[t].n
        /\ \A r \in OwnRids(t) : r + 1 \in OwnRids(t) \/ wire[r].idx = op[t].n
        /\ Len(results[t]) = op[t].n
        /\ OwnReplies(t)

\* The replies to task t's commands that return_as 'ok' does not accept.
BadReplies(t) == {r \in OwnRids(t) : r <= Len(replies) /\ replies[r] # "ok"}

\* What the call of task t hands to its caller: the values when it returns,
\* nothing when it raises.
Delivered(t) == IF Returned(t) THEN results[t] ELSE <<>>

\* C5: an 'ok' execute_many over N >= 2 commands whose N replies hold exactly
\* one bad reply still hands its caller the value of every other item.
C5_ErrorPerItem ==
    \A t \in Tasks :
        ( /\ IsExecuteMany(t) /\ op[t].tag = "ok" /\ op[t].n >= 2 /\ Done(t)
          /\ outcome[t] \in {"returned", "RuntimeError"}
          /\ Cardinality(OwnRids(t)) = op[t].n
          /\ \A r \in OwnRids(t) : r <= Len(replies)
          /\ Cardinality(BadReplies(t)) = 1 )
        => \A r \in OwnRids(t) \ BadReplies(t) :
               \E i \in 1..Len(Delivered(t)) : Delivered(t)[i].rid = r

\* C6: an execute call with a return_as other than 'ok' never returns an
\* error reply as its value.
C6_ErrorReplyRaises ==
    \A t \in Tasks :
        (IsExecute(t) /\ op[t].tag # "ok" /\ Returned(t)) =>
            \A i \in 1..Len(results[t]) : results[t][i].kind # "err"

\* C7: a call of execute or execute_many made after a close() has returned
\* puts nothing on the wire, never reads or waits for a reply, and ends with
\* the connection error (or the caller's own cancellation).
C7_FailsAfterClose ==
    \A t \in Tasks : (afterClose[t] /\ ~IsClose(t)) =>
        /\ OwnRids(t) = {}
        /\ results[t] = <<>>
        /\ pc[t] \notin {"gets", "read"}
        /\ Done(t) => outcome[t] \in {"ConnectionResetError", "CancelledError"}

C7_Witness ==
    \E t \in Tasks :
        afterClose[t] /\ IsExecuteMany(t) /\ Done(t) /\ outcome[t] = "ConnectionResetError"

\* C8: once a task was cancelled between its write and its last read the
\* transport is closed, and no task holds the reply to a command of a
\* cancelled task.
C8_CancelClosesConnection ==
    /\ cancelledMid => tr_closing
    /\ \A t \in Tasks : \A i \in 1..Len(results[t]) :
           results[t][i].rid # 0 =>
               \/ wire[results[t][i].rid].task = t
               \/ outcome[wire[results[t][i].rid].task] # "CancelledError"

\* C9: tasks enter the lock in the order of their calls (the order of their
\* numbers): when a task has entered, every task that called before it has
\* finished, and the commands on the wire are in call order.
C9_FIFO ==
    /\ \A i, j \in 1..Len(acqOrder) : i < j => acqOrder[i] < acqOrder[j]
    /\ \A a, b \in Tasks :
           (a < b /\ \E i \in 1..Len(acqOrder) : acqOrder[i] = b) => Done(a)
    /\ \A i, j \in 1..Len(wire) : i < j => wire[i].task <= wire[j].task

\* Two tasks queued behind the first; the first has left and the older of the
\* two has been handed the lock.
C9_Witness ==
    /\ Done(1)
    /\ holder = 2 /\ pc[2] = "lock"
    /\ lock_waiters = <<3>>

\* C10: while close() holds the lock with the transport closed, no other task
\* is inside the lock, and every execute / execute_many that put commands on
\* the wire has had all of their replies read.
C10_CloseOutsideCycles ==
    \A c \in Tasks : (IsClose(c) /\ pc[c] = "wait_closed") =>
        /\ \A t \in Tasks : t # c => ~InCycle(t)
        /\ \A t \in Tasks : OwnRids(t) # {} => Consumed(t) = op[t].n

\* The recorded commands that reached the transport.
Sent ==
    {batchOf[wire[i].task][wire[i].idx] :
        i \in {j \in 1..Len(wire) : wire[j].idx <= Len(batchOf[wire[j].task])}}

\* C11: when the block of a pipeline ends with an error, the context drops
\* its pipeline, and no command that was recorded and not yet flushed at
\* that moment ever reaches the transport.
C11_AbandonedNotSent ==
    /\ scope = "aborted" => ctx_pipeline = "none"
    /\ abandoned \cap Sent = {}

\* Two commands recorded, the block failed, and the connection is used on.
C11_Witness ==
    /\ scope = "aborted"
    /\ Cardinality(abandoned) = 2
    /\ \E t \in Tasks : IsClose(t) /\ Returned(t)

\* The calls that are flushes of the pipeline.
IsFlush(t) == batchOf[t] # <<>>

\* C12: a recorded command is on the wire only through a flush; a flush is
\* one execute_many call over the commands recorded, which go on the wire
\* in one piece in the order recorded; a flush that returns (no task being
\* cancelled) gives one value per command, value i being the reply to
\* command i.
C12_FlushOneBatch ==
    /\ \A i \in 1..Len(wire) : IsFlush(wire[i].task)
    /\ \A t \in Tasks : IsFlush(t) =>
        /\ IsExecuteMany(t) /\ op[t].n = Len(batchOf[t])
        /\ \A i, j \in 1..Len(batchOf[t]) : i < j => batchOf[t][i] < batchOf[t][j]
        /\ \A r \in OwnRids(t) : r + 1 \in OwnRids(t) \/ wire[r].idx = op[t].n
        /\ (NoCancel /\ Returned(t)) =>
               (Len(results[t]) = Len(batchOf[t]) /\ OwnReplies(t))
    /\ ret.st = "values" => Len(ret.vals) = flushes[Len(flushes)].n

\* C13: a flush of an empty batch returns [] and leaves the connection as
\* it was: no call, no write, no read, no acquisition of the lock.
C13_EmptyFlushNoOp ==
    [][(Len(flushes') > Len(flushes) /\ pipeline = <<>>) =>
          /\ ret' = [st |-> "values", vals |-> <<>>]
          /\ flushes'[Len(flushes')] = [n |-> 0, task |-> NoTask]
          /\ UNCHANGED connVars]_vars

\* An empty batch was flushed by p.execute() and then by the end of the block.
C13_Witness ==
    /\ Len(flushes) = 2
    /\ flushes[1].n = 0 /\ flushes[2].n = 0
    /\ scope = "exited"

\* C14: (no task being cancelled) no command is handed to two flushes, and
\* once a flush is over, returned or failed, the list holds only commands
\* recorded after it.
C14_ConsumedOnce ==
    NoCancel =>
        /\ \A t, u \in Tasks : t # u => Range(batchOf[t]) \cap Range(batchOf[u]) = {}
        /\ flushBy = NoTask => Range(pipeline) \cap Handed = {}

\* C15: a feed_data call that leaves more than 2 * Limit bytes buffered on a
\* transport that can pause leaves the transport paused, and a feed that
\* leaves at most 2 * Limit bytes buffered does not change whether it is
\* paused.
C15_PauseThreshold ==
    [][hi_len' > hi_len =>
          /\ (transport = "pausable" /\ hi_len' > 2 * Limit) => paused'
          /\ hi_len' <= 2 * Limit => paused' = paused]_vars

\* A feed took the count above 2 * Limit and paused the transport.
C15_Witness ==
    /\ flow_ev = [step |-> "feed", was_paused |-> FALSE]
    /\ transport = "pausable"
    /\ hi_len > 2 * Limit
    /\ paused

\* C16 as stated: a paused transport is resumed by a step of read_redis
\* exactly when that step is a successful parse leaving at most Limit bytes
\* buffered.
C16_ResumedOnlyByParse ==
    [][(paused /\ ~paused') <=>
          (paused /\ hi_len' < hi_len /\ hi_len' <= Limit)]_vars

\* C16, amended: a paused transport is resumed by a step of read_redis
\* exactly when that step is a successful parse leaving at most Limit bytes
\* buffered, or finds no complete reply buffered and starts to wait for
\* data; a successful parse leaving more than Limit bytes keeps it paused.
C16_Resume ==
    [][(paused /\ ~paused') <=>
          (paused /\ \/ hi_len' < hi_len /\ hi_len' <= Limit
                     \/ rd_waiting' /\ ~rd_waiting)]_vars

\* A paused reader holding more than Limit bytes of one incomplete reply
\* started to wait, and the transport was resumed.
C16_Witness ==
    /\ flow_ev = [step |-> "wait", was_paused |-> TRUE]
    /\ ~paused
    /\ hi_len > Limit

\* A reply whose bytes have all been fed and which no call has parsed.
CompleteBuffered ==
    \E r \in Readers : \E i \in 1..Len(buffers[r]) :
        \/ buffers[r][i].part = "whole"
        \/ /\ buffers[r][i].part = "tail"
           /\ \E q \in Readers : \E j \in 1..Len(buffers[q]) :
                  buffers[q][j] = [rid |-> buffers[r][i].rid, part |-> "head"]

\* The call of task t fails with IncompleteReadError in this step.
FailsIncomplete(t) ==
    outcome[t] = "pending" /\ outcome'[t] = "IncompleteReadError"

\* C17: a read fails with IncompleteReadError only at end-of-stream and only
\* when no complete reply is buffered, and it leaves the reader with an empty
\* decoder; once the stream has ended no task is left suspended in a read.
C17_EndOfStream ==
    [][/\ \A t \in Tasks : FailsIncomplete(t) =>
              /\ eof
              /\ ~CompleteBuffered
              /\ buffers'[hi_reader'] = <<>>
       /\ eof' => (waiter' = NoTask /\ \A t \in Tasks : pc'[t] # "read")]_vars

\* C18: once a call has failed with IncompleteReadError the transport is
\* closed and nothing more is written to the stream.
C18_IncompleteIsFatal ==
    [][(\E t \in Tasks : outcome[t] = "IncompleteReadError") =>
          (tr_closing /\ wire' = wire)]_vars

\* An execute call with return_as='ok' that is over, by return or by the
\* RuntimeError of _read_result.
OkCallOver(t) ==
    /\ IsExecute(t) /\ op[t].tag = "ok"
    /\ Done(t) /\ outcome[t] \in {"returned", "RuntimeError"}

\* C19: (no task being cancelled) an execute call with return_as='ok' returns
\* exactly when the reply to its request is the expected status and raises
\* otherwise; either way it has consumed exactly one reply and released the
\* lock.
C19_OkTag ==
    NoCancel =>
        \A t \in Tasks : OkCallOver(t) =>
            /\ OwnRids(t) # {} /\ RidOf(t, 1) <= Len(replies)
            /\ Returned(t) <=> replies[RidOf(t, 1)] = "ok"
            /\ Consumed(t) = 1
            /\ holder # t

\* Reading the framing back.
HasCRLF(b, i) == i + 1 <= Len(b) /\ b[i] = 13 /\ b[i + 1] = 10

\* n blobs `$L CRLF <L bytes> CRLF` starting at position i.
RECURSIVE ReadArgs(_, _, _, _)
ReadArgs(b, i, n, acc) ==
    IF n = 0 THEN [ok |-> TRUE, args |-> acc, pos |-> i]
    ELSE IF i > Len(b) \/ b[i] # 36 THEN [ok |-> FALSE, args |-> acc, pos |-> i]
    ELSE LET l == ReadNat(b, i + 1, 0)
             from == l.pos + 2
         IN  IF /\ l.pos > i + 1
                /\ HasCRLF(b, l.pos)
                /\ HasCRLF(b, from + l.val)
             THEN ReadArgs(b, from + l.val + 2, n - 1,
                           Append(acc, SubSeq(b, from, from + l.val - 1)))
             ELSE [ok |-> FALSE, args |-> acc, pos |-> i]

\* Commands `*N CRLF` + N blobs, one after the other, up to the end of b.
RECURSIVE ReadCommands(_, _, _)
ReadCommands(b, i, acc) ==
    IF i > Len(b) THEN [ok |-> TRUE, cmds |-> acc]
    ELSE IF b[i] # 42 THEN [ok |-> FALSE, cmds |-> acc]
    ELSE LET h == ReadNat(b, i + 1, 0)
         IN  IF h.pos = i + 1 \/ ~HasCRLF(b, h.pos) THEN [ok |-> FALSE, cmds |-> acc]
             ELSE LET a == ReadArgs(b, h.pos + 2, h.val, <<>>)
                  IN  IF a.ok THEN ReadCommands(b, a.pos, Append(acc, a.args))
                      ELSE [ok |-> FALSE, cmds |-> acc]

RECURSIVE Flatten(_)
Flatten(parts) == IF parts = <<>> THEN <<>> ELSE parts[1] \o Flatten(Tail(parts))

\* C20: with supported arguments only, the buffer reads back as one command
\* `*N CRLF` per encoded command, each followed by its N arguments in order
\* as `$L CRLF bytes CRLF` with the converted bytes of the argument, and it
\* is the concatenation of the commands' individual encodings.
C20_Framing ==
    ~enc_err =>
        /\ ReadCommands(enc_buf, 1, <<>>) =
               [ok |-> TRUE,
                cmds |-> [k \in 1..Len(enc_cmds) |->
                            [j \in 1..Len(enc_cmds[k]) |-> BinArg(enc_cmds[k][j])]]]
        /\ enc_buf = Flatten(enc_parts)

\* Two commands in one buffer, the first with a non-ASCII str and a blob of
\* ten bytes, the second with a bytearray holding CR LF.
C20_Witness ==
    /\ ~enc_err
    /\ Len(enc_cmds) = 2
    /\ Len(enc_cmds[1]) = 2
    /\ enc_cmds[1][1].type = "str"
    /\ Len(enc_cmds[1][2].val) = 10
    /\ Len(enc_cmds[2]) = 1
    /\ enc_cmds[2][1].type = "bytearray"

\* Call t was given an argument that is None.
HasBadArg(t) ==
    \E i \in 1..Len(args_of[t]) : \E j \in 1..Len(args_of[t][i]) :
        args_of[t][i][j].type = "NoneType"

\* C21: a call given an argument of an unsupported type raises TypeError at
\* once and leaves the connection as it was: nothing is written (the valid
\* commands of the batch neither), the decoder is not switched, the lock is
\* neither taken nor queued for, and no reply is read.
C21_BadArgNoEffect ==
    [][\A t \in Tasks : (HasBadArg(t)' /\ ~HasBadArg(t)) =>
          /\ pc'[t] = "done" /\ outcome'[t] = "TypeError"
          /\ UNCHANGED <<wire, hi_reader, buffers, replies, results, holder,
                         lock_waiters, acqOrder, waiter, cur, tr_closing, eof>>]_vars

\* An execute_many whose second command holds a None has raised while another
\* call is waiting for its reply: only that call's command is on the wire.
C21_Witness ==
    \E t, u \in Tasks :
        /\ Len(args_of[t]) = 2 /\ ~EncodeCommandInto(<<>>, args_of[t][1]).err
        /\ HasBadArg(t) /\ outcome[t] = "TypeError"
        /\ pc[u] = "read" /\ holder = u
        /\ \A i \in 1..Len(wire) : wire[i].task = u

\* C22: with return_as int, float or bool, a blob gives the conversion of the
\* blob, an array gives the list of the conversions of its elements, in
\* order and of the same length, and an integer reply gives a value too.
C22_Converted ==
    dec_out # NoOut =>
        /\ dec_raw.kind = "blob" =>
               \/ dec_out = [st |-> "value", vals |-> <<Convert(dec_tag, dec_raw.blob)>>]
               \/ dec_out.st = "ValueError" /\ ~IsNumber(dec_raw.blob)
        /\ dec_raw.kind = "array" =>
               /\ dec_out.st = "list"
               /\ Len(dec_out.vals) = Len(dec_raw.items)
               /\ \A i \in 1..Len(dec_raw.items) :
                      dec_out.vals[i] = Convert(dec_tag, dec_raw.items[i])
        /\ dec_raw.kind = "int" => dec_out.st = "value"

\* C23: every status or blob execute_many has read is decoded as execute
\* decodes for the same tag: text for 'str', bytes otherwise.
C23_ManyDecodesAsExecute ==
    \A t \in Tasks : IsExecuteMany(t) =>
        \A i \in 1..Len(results[t]) :
            results[t][i].kind = "ok" =>
                results[t][i].mode = ModeOf(ReaderFor(op[t].tag))

\* C24: however the bytes of a valid reply are cut into chunks, read_redis
\* returns the value the reply stands for, and returns it only when the last
\* byte has been fed; nothing is left in the decoder.
C24_Fragments ==
    fr_got # NoValue =>
        /\ fr_got = fr_reply.val
        /\ fr_at = Len(fr_reply.bytes)
        /\ fr_buf = <<>>

\* The array reply came in four pieces and its value was returned.
C24_Witness ==
    /\ fr_reply.val.kind = "array"
    /\ fr_pieces = 4
    /\ fr_got = fr_reply.val

\* Task t is inside read_redis: running its loop or suspended in it.
Reading(t) == pc[t] \in {"gets", "read"}

\* C25: at most one task is inside read_redis, and the reader's waiter is
\* that task exactly while it is suspended.
C25_OneReader ==
    /\ \A t, u \in Tasks : (Reading(t) /\ Reading(u)) => t = u
    /\ \A t \in Tasks : pc[t] = "read" <=> waiter = t

\* One call waits for its reply while two other calls queue on the lock.
C25_Witness ==
    /\ \E t \in Tasks : pc[t] = "read" /\ waiter = t
    /\ Len(lock_waiters) = 2

C27_ReadNotStarved ==
    /\ [](rd_waiting => ~paused)
    /\ rd_waiting ~> (flow_ev.step = "parse")

\* read_redis is suspended for a reply larger than 2 * Limit with more than
\* 2 * Limit bytes of it buffered; the feed that buffered them had paused the
\* transport, and the wait resumed it.
C27_Witness ==
    /\ rd_waiting
    /\ flow_ev = [step |-> "wait", was_paused |-> TRUE]
    /\ need = 2 * Limit + 2
    /\ hi_len > 2 * Limit
    /\ transport = "pausable"
    /\ ~paused

\* C28: pause_reading and resume_reading alternate, a pause first; _paused is
\* true exactly after a successful pause; on a transport that cannot pause,
\* pause_reading is tried once at most and resume_reading is never called.
C28_PauseResumeAlternate ==
    /\ tr_depth \in {0, 1}
    /\ paused <=> tr_depth = 1
    /\ tr_failed <= 1
    /\ transport # "pausable" => (tr_depth = 0 /\ ~paused)
    /\ tr_failed = 1 => transport = "none"

\* pause_reading has failed once and more than 2 * Limit bytes are buffered
\* again afterwards.
C28_Witness ==
    /\ tr_failed = 1
    /\ flow_ev.step = "feed"
    /\ hi_len > 2 * Limit + 1

\* The commands of the block that are nowhere any more: not on the list, not
\* given to a flush, not left behind by a failed block.
Discarded == (1..nCmds) \ (Range(pipeline) \cup Handed \cup abandoned)

\* C29: a flush reads as many replies as the commands it wrote, also when
\* another task appends to the list during the flush: it never waits for one
\* reply more, it returns one value per command written, and a command
\* appended during the flush is not dropped from the list.
C29_ReadsWhatItWrote ==
    /\ \A t \in Tasks :
        /\ (IsExecuteMany(t) /\ pc[t] = "read") => Len(results[t]) < op[t].n
        /\ (IsExecuteMany(t) /\ outcome[t] = "returned") => Len(results[t]) = op[t].n
    /\ Discarded = {}

\* Reply r has a chunk in decoder d.
InDecoder(r, d) == \E i \in 1..Len(buffers[d]) : buffers[d][i].rid = r

\* C30: every byte fed is parsed by the decoder read_redis reads from: no
\* bytes stay buffered in a decoder that is not the selected one, and no
\* reply has its head in one decoder and its tail in the other.
C30_OneDecoderParsesAll ==
    /\ \A d \in Readers : d # hi_reader => buffers[d] = <<>>
    /\ \A r \in 1..Len(replies) : ~(InDecoder(r, "raw") /\ InDecoder(r, "enc"))

\* How many times the recorded command c was written to the transport.
WrittenTimes(c) ==
    Cardinality({i \in 1..Len(wire) : /\ wire[i].idx <= Len(batchOf[wire[i].task])
                                      /\ batchOf[wire[i].task][wire[i].idx] = c})

\* C31: (no task being cancelled) when a flush made by p.execute() inside
\* the block is over the list is empty, so the end of the block writes
\* nothing further: no recorded command is written twice, and after a normal
\* end of the block every recorded command was written exactly once.
C31_WrittenOnce ==
    /\ [][(NoCancel' /\ flushHow = "explicit" /\ flushBy # NoTask /\ flushBy' = NoTask)
              => pipeline' = <<>>]_vars
    /\ [](NoCancel => \A c \in 1..nCmds : WrittenTimes(c) <= 1)
    /\ []((NoCancel /\ scope = "exited" /\ ret.st = "values")
              => \A c \in 1..nCmds : WrittenTimes(c) = 1)

====
